---- MODULE Spec2Model ----
(***************************************************************************)
(* Model of ComplexReactor (src/src/ComplexReactor.h, ComplexReactor.cpp): *)
(* a reactor with two inputs and one or two outputs.                       *)
(*                                                                         *)
(* Numbers.  The class works on double.  Here a real x is the integer      *)
(* x * One, with One == Den * Den.  Ratios are multiples of 1/Den and      *)
(* inputs are whole numbers, so every product the code forms               *)
(* (limiting * conversion, reacted * splitRatio, reacted * (1-splitRatio)) *)
(* is a multiple of 1/One and Mul is exact.  For Den a power of two these  *)
(* are exactly the values IEEE-754 double arithmetic produces; rounding,   *)
(* NaN and infinities are outside the model.                               *)
(*                                                                         *)
(* Calls.  op, args, err and ret record the most recent call: its name,    *)
(* its arguments, the exception it threw ("none" when it returned) and the *)
(* value it returned.  lastRun is a history variable: the output mode of   *)
(* the most recent runReaction since construction or the last reset        *)
(* ("single" or "two"), "none" when there was no such run.                 *)
(***************************************************************************)
EXTENDS Integers, Sequences, FiniteSets

VARIABLES alive, inputA, inputB, conversion, twoOutputs, splitRatio,
          lastOutputs, op, args, err, ret, lastRun

vars == <<alive, inputA, inputB, conversion, twoOutputs, splitRatio,
          lastOutputs, op, args, err, ret, lastRun>>

fields == <<inputA, inputB, conversion, twoOutputs, splitRatio, lastOutputs>>

\* ---- bounds ----
MaxInput == 2
MaxIdx == 2

\* ---- numbers ----
\* the ratio grid: the default conversion and splitRatio, 0.5, is 1/Den
Den == 2

One == Den * Den

Zero == 0 * One

Mul(x, y) == (x * y) \div One

Min(x, y) == IF y < x THEN y ELSE x

\* arguments offered to the ratio parameters: -1/Den, 0, ..., 1, 1 + 1/Den
RatioArgs == {n * Den : n \in -1 .. Den + 1}

\* arguments offered to setInputs: -1, 0, ..., MaxInput
InputArgs == {k * One : k \in -1 .. MaxInput}

IdxArgs == 0 .. MaxIdx

InvalidParameter == "invalid_argument"

IndexOutOfRange == "out_of_range"

NoError == "none"

\* ---- validateParams: TRUE when it returns, FALSE when it throws ----
ValidateParams(c, s) ==
    /\ ~(c < Zero \/ c > One)
    /\ ~(s < Zero \/ s > One)

\* ---- the vector runReaction computes ----
RunResultMax(a, b, c, two, s) ==
    LET limiting == IF a < b THEN b ELSE a
        reacted == Mul(limiting, c)
    IN IF ~two THEN <<reacted>>
       ELSE <<Mul(reacted, s), Mul(reacted, One - s)>>

RunResult(a, b, c, two, s) ==
    LET limiting == Min(a, b)
        reacted == Mul(limiting, c)
    IN IF ~two
       THEN LET R == reacted IN <<R>>
       ELSE LET R == Mul(reacted, s)
                S == Mul(reacted, One - s)
            IN <<R, S>>

Init ==
    /\ alive = FALSE
    /\ inputA = Zero
    /\ inputB = Zero
    /\ conversion = Zero
    /\ twoOutputs = FALSE
    /\ splitRatio = Zero
    /\ lastOutputs = <<>>
    /\ op = "none"
    /\ args = <<>>
    /\ err = NoError
    /\ ret = <<>>
    /\ lastRun = "none"

ConstructIgnoringSplit(c, two, s) ==
    /\ ~alive
    /\ op' = "Construct"
    /\ args' = <<c, two, s>>
    /\ ret' = <<>>
    /\ lastRun' = "none"
    /\ IF ValidateParams(c, IF two THEN s ELSE Zero)
       THEN /\ alive' = TRUE
            /\ inputA' = Zero
            /\ inputB' = Zero
            /\ conversion' = c
            /\ twoOutputs' = two
            /\ splitRatio' = s
            /\ lastOutputs' = <<>>
            /\ err' = NoError
       ELSE /\ err' = InvalidParameter
            /\ UNCHANGED <<alive, fields>>

\* ComplexReactor(conversion, twoOutputs, splitRatio): when validateParams
\* throws, no object comes into being.
Construct(c, two, s) ==
    /\ ~alive
    /\ op' = "Construct"
    /\ args' = <<c, two, s>>
    /\ ret' = <<>>
    /\ IF ValidateParams(c, s)
       THEN /\ alive' = TRUE
            /\ inputA' = Zero
            /\ inputB' = Zero
            /\ conversion' = c
            /\ twoOutputs' = two
            /\ splitRatio' = s
            /\ lastOutputs' = <<>>
            /\ err' = NoError
       ELSE /\ err' = InvalidParameter
            /\ UNCHANGED <<alive, fields>>
    /\ lastRun' = "none"

SetInputsPartial(a, b) ==
    /\ alive
    /\ op' = "SetInputs"
    /\ args' = <<a, b>>
    /\ ret' = <<>>
    /\ IF a < Zero
       THEN /\ err' = InvalidParameter
            /\ UNCHANGED <<inputA, inputB>>
       ELSE IF b < Zero
       THEN /\ err' = InvalidParameter
            /\ inputA' = a
            /\ UNCHANGED inputB
       ELSE /\ inputA' = a
            /\ inputB' = b
            /\ err' = NoError
    /\ UNCHANGED <<alive, conversion, twoOutputs, splitRatio, lastOutputs>>
    /\ UNCHANGED lastRun

SetInputs(a, b) ==
    /\ alive
    /\ op' = "SetInputs"
    /\ args' = <<a, b>>
    /\ ret' = <<>>
    /\ IF a < Zero \/ b < Zero
       THEN /\ err' = InvalidParameter
            /\ UNCHANGED <<inputA, inputB>>
       ELSE /\ inputA' = a
            /\ inputB' = b
            /\ err' = NoError
    /\ UNCHANGED <<alive, conversion, twoOutputs, splitRatio, lastOutputs>>
    /\ UNCHANGED lastRun

SetConversionValidateFirst(v) ==
    /\ alive
    /\ op' = "SetConversion"
    /\ args' = <<v>>
    /\ ret' = <<>>
    /\ IF ValidateParams(v, splitRatio)
       THEN conversion' = v /\ err' = NoError
       ELSE conversion' = conversion /\ err' = InvalidParameter
    /\ UNCHANGED <<alive, inputA, inputB, twoOutputs, splitRatio, lastOutputs>>
    /\ UNCHANGED lastRun

\* conversion_ = conversion; validateParams();
SetConversion(v) ==
    /\ alive
    /\ op' = "SetConversion"
    /\ args' = <<v>>
    /\ ret' = <<>>
    /\ conversion' = v
    /\ err' = IF ValidateParams(v, splitRatio) THEN NoError ELSE InvalidParameter
    /\ UNCHANGED <<alive, inputA, inputB, twoOutputs, splitRatio, lastOutputs>>
    /\ UNCHANGED lastRun

SetTwoOutputsClearing(two) ==
    /\ alive
    /\ op' = "SetTwoOutputs"
    /\ args' = <<two>>
    /\ ret' = <<>>
    /\ err' = NoError
    /\ twoOutputs' = two
    /\ lastOutputs' = IF two = twoOutputs THEN lastOutputs ELSE <<>>
    /\ UNCHANGED <<alive, inputA, inputB, conversion, splitRatio>>
    /\ UNCHANGED lastRun

SetTwoOutputs(two) ==
    /\ alive
    /\ op' = "SetTwoOutputs"
    /\ args' = <<two>>
    /\ ret' = <<>>
    /\ err' = NoError
    /\ twoOutputs' = two
    /\ UNCHANGED <<alive, inputA, inputB, conversion, splitRatio, lastOutputs>>
    /\ UNCHANGED lastRun

\* splitRatio_ = ratio; validateParams();
SetSplitRatio(v) ==
    /\ alive
    /\ op' = "SetSplitRatio"
    /\ args' = <<v>>
    /\ ret' = <<>>
    /\ splitRatio' = v
    /\ err' = IF ValidateParams(conversion, v) THEN NoError ELSE InvalidParameter
    /\ UNCHANGED <<alive, inputA, inputB, conversion, twoOutputs, lastOutputs>>
    /\ UNCHANGED lastRun

RunReactionConsuming ==
    /\ alive
    /\ op' = "RunReaction"
    /\ args' = <<>>
    /\ err' = NoError
    /\ lastOutputs' = RunResult(inputA, inputB, conversion, twoOutputs, splitRatio)
    /\ ret' = lastOutputs'
    /\ inputA' = inputA - Mul(Min(inputA, inputB), conversion)
    /\ inputB' = inputB - Mul(Min(inputA, inputB), conversion)
    /\ UNCHANGED <<alive, conversion, twoOutputs, splitRatio>>
    /\ lastRun' = IF twoOutputs THEN "two" ELSE "single"

RunReaction ==
    /\ alive
    /\ op' = "RunReaction"
    /\ args' = <<>>
    /\ err' = NoError
    /\ lastOutputs' = RunResult(inputA, inputB, conversion, twoOutputs, splitRatio)
    /\ ret' = lastOutputs'
    /\ UNCHANGED <<alive, inputA, inputB, conversion, twoOutputs, splitRatio>>
    /\ lastRun' = IF twoOutputs THEN "two" ELSE "single"

Reset ==
    /\ alive
    /\ op' = "Reset"
    /\ args' = <<>>
    /\ err' = NoError
    /\ ret' = <<>>
    /\ inputA' = Zero
    /\ inputB' = Zero
    /\ lastOutputs' = <<>>
    /\ UNCHANGED <<alive, conversion, twoOutputs, splitRatio>>
    /\ lastRun' = "none"

GetLastOutputOffByOne(idx) ==
    /\ alive
    /\ op' = "GetLastOutput"
    /\ args' = <<idx>>
    /\ IF idx > Len(lastOutputs) \/ lastOutputs = <<>>
       THEN err' = IndexOutOfRange /\ ret' = <<>>
       ELSE /\ err' = NoError
            /\ ret' = <<lastOutputs[IF idx = 0 THEN 1 ELSE idx]>>
    /\ UNCHANGED <<alive, fields>>
    /\ UNCHANGED lastRun

\* idx is size_t; lastOutputs_[idx] is element idx + 1 of the sequence
GetLastOutput(idx) ==
    /\ alive
    /\ op' = "GetLastOutput"
    /\ args' = <<idx>>
    /\ IF idx >= Len(lastOutputs)
       THEN err' = IndexOutOfRange /\ ret' = <<>>
       ELSE err' = NoError /\ ret' = <<lastOutputs[idx + 1]>>
    /\ UNCHANGED <<alive, fields>>
    /\ UNCHANGED lastRun

Next ==
    \/ \E c \in RatioArgs, two \in BOOLEAN, s \in RatioArgs : Construct(c, two, s)
    \/ \E a \in InputArgs, b \in InputArgs : SetInputs(a, b)
    \/ \E v \in RatioArgs : SetConversion(v)
    \/ \E two \in BOOLEAN : SetTwoOutputs(two)
    \/ \E v \in RatioArgs : SetSplitRatio(v)
    \/ RunReaction
    \/ Reset
    \/ \E idx \in IdxArgs : GetLastOutput(idx)

Spec == Init /\ [][Next]_vars

\* ---------------------------------------------------------------------
\* Properties
\* ---------------------------------------------------------------------

InRange(v) == v >= Zero /\ v <= One

RECURSIVE SumSeq(_)
SumSeq(q) == IF q = <<>> THEN 0 ELSE Head(q) + SumSeq(Tail(q))

\* C1: in every state reached after a successful construction the stored
\* state has conversion in [0,1], splitRatio in [0,1], inputA >= 0 and
\* inputB >= 0.
C1_StoredInvariants ==
    alive => /\ InRange(conversion)
             /\ InRange(splitRatio)
             /\ inputA >= Zero
             /\ inputB >= Zero

\* C2: SetConversion(v) fails with InvalidParameter exactly when v is outside
\* [0,1], and SetSplitRatio(v) fails exactly when v is outside [0,1],
\* whatever earlier calls did.
C2_SettersValidatedIndividually ==
    /\ op = "SetConversion" => (err = InvalidParameter <=> ~InRange(args[1]))
    /\ op = "SetSplitRatio" => (err = InvalidParameter <=> ~InRange(args[1]))

\* C3: RunReaction never fails, returns what it stores in lastOutputs, and
\* with reacted = min(inputA, inputB) * conversion the sequence is [reacted]
\* in single-output mode and [reacted * splitRatio, reacted * (1 - splitRatio)],
\* summing to reacted, in two-output mode.
C3_RunReactionResult ==
    op = "RunReaction" =>
        LET reacted == Mul(Min(inputA, inputB), conversion)
        IN /\ err = NoError
           /\ ret = lastOutputs
           /\ ~twoOutputs => ret = <<reacted>>
           /\ twoOutputs => /\ Len(ret) = 2
                            /\ ret[1] = Mul(reacted, splitRatio)
                            /\ ret[2] = Mul(reacted, One - splitRatio)
                            /\ ret[1] + ret[2] = reacted

C3_Witness ==
    /\ op = "RunReaction"
    /\ twoOutputs
    /\ inputA > inputB
    /\ Len(ret) = 2
    /\ ret[1] > Zero
    /\ ret[2] > Zero
    /\ ret[1] + ret[2] < inputB

\* C4: SetInputs(a, b) with a < 0 or b < 0 fails with InvalidParameter and
\* leaves every field as it was; with a >= 0 and b >= 0 it succeeds and
\* sets inputA = a and inputB = b.
C4_SetInputsAtomic ==
    [][op' = "SetInputs" =>
          IF args'[1] < Zero \/ args'[2] < Zero
          THEN err' = InvalidParameter /\ UNCHANGED fields
          ELSE err' = NoError /\ inputA' = args'[1] /\ inputB' = args'[2]]_vars

C4_Witness ==
    /\ op = "SetInputs"
    /\ err = InvalidParameter
    /\ args[1] > Zero
    /\ args[2] < Zero
    /\ inputA > Zero
    /\ inputA # args[1]
    /\ lastOutputs # <<>>

\* C5: GetLastOutput(index) fails with IndexOutOfRange exactly when
\* index >= length(lastOutputs); GetLastOutput(0) fails exactly when no
\* RunReaction happened since construction or the most recent Reset, and a
\* GetLastOutput(0) that directly follows a Reset fails.
C5_GetLastOutputRange ==
    /\ [](op = "GetLastOutput" =>
            /\ err = IndexOutOfRange <=> args[1] >= Len(lastOutputs)
            /\ err # IndexOutOfRange => err = NoError /\ ret = <<lastOutputs[args[1] + 1]>>
            /\ args[1] = 0 => (err = IndexOutOfRange <=> lastRun = "none"))
    /\ [][op = "Reset" /\ op' = "GetLastOutput" /\ args'[1] = 0
             => err' = IndexOutOfRange]_vars

C5_Witness ==
    /\ op = "GetLastOutput"
    /\ args[1] = 1
    /\ err = IndexOutOfRange
    /\ Len(lastOutputs) = 1
    /\ inputA > Zero

\* C6: every RunReaction leaves inputA, inputB, conversion, twoOutputs and
\* splitRatio unchanged, and a RunReaction that directly follows a
\* RunReaction returns the same sequence and leaves lastOutputs the same.
C6_RunReactionIdempotent ==
    [][op' = "RunReaction" =>
          /\ UNCHANGED <<inputA, inputB, conversion, twoOutputs, splitRatio>>
          /\ op = "RunReaction" => ret' = ret /\ lastOutputs' = lastOutputs]_vars

C6_Witness ==
    /\ op = "RunReaction"
    /\ inputA > Zero
    /\ inputB > Zero
    /\ conversion > Zero
    /\ ret # <<>>
    /\ ret[1] > Zero

\* C7: Construct(conversion, twoOutputs, splitRatio) fails with
\* InvalidParameter exactly when conversion or splitRatio is outside [0,1],
\* also in single-output mode; on success both inputs are 0 and lastOutputs
\* is empty.
C7_ConstructValidates ==
    op = "Construct" =>
        /\ err = InvalidParameter <=> (~InRange(args[1]) \/ ~InRange(args[3]))
        /\ err = InvalidParameter => ~alive
        /\ err # InvalidParameter =>
              /\ err = NoError
              /\ alive
              /\ inputA = Zero
              /\ inputB = Zero
              /\ lastOutputs = <<>>
              /\ conversion = args[1]
              /\ twoOutputs = args[2]
              /\ splitRatio = args[3]

C7_Witness ==
    /\ op = "Construct"
    /\ err = InvalidParameter
    /\ InRange(args[1])
    /\ args[2] = FALSE
    /\ ~InRange(args[3])

\* C8: every element of the sequence RunReaction returns is >= 0 and the
\* elements sum to at most min(inputA, inputB).
C8_LimitingReagentBound ==
    op = "RunReaction" =>
        /\ \A i \in 1 .. Len(ret) : ret[i] >= Zero
        /\ SumSeq(ret) <= Min(inputA, inputB)

C10_LastOutputsFrame ==
    /\ [](/\ Len(lastOutputs) \in {0, 1, 2}
          /\ Len(lastOutputs) = (CASE lastRun = "none" -> 0
                                   [] lastRun = "single" -> 1
                                   [] lastRun = "two" -> 2)
          /\ (op = "GetLastOutput" /\ args[1] = 1) =>
                (err = NoError <=> lastRun = "two"))
    /\ [][op' \in {"SetInputs", "SetConversion", "SetTwoOutputs",
                   "SetSplitRatio", "GetLastOutput"}
             => lastOutputs' = lastOutputs]_vars

C10_Witness ==
    /\ op = "GetLastOutput"
    /\ args[1] = 1
    /\ err = NoError
    /\ ~twoOutputs
    /\ Len(lastOutputs) = 2
    /\ ret[1] > Zero

====
